---- MODULE Spec2Model ----
(***************************************************************************)
(* Model of the prediction aggregation and scoring engine:                 *)
(*   - QueryMiners (sandbox/validator/tasks/query_miners.py): one dispatch *)
(*     round queries the serving axons and upserts their predictions;      *)
(*   - Validator (neurons/deprecated_validator.py): forward() (dispatch    *)
(*     round with the rate-limit gate), on_event_update() (settlement      *)
(*     hook and scoring) and export_scores().                              *)
(*                                                                         *)
(* Numbers are fixed point.  Probabilities and ground truths are in tenths *)
(* (0.5 is 5, 1.0 is 10), a Brier complement 1 - (ans - y)^2 is in         *)
(* hundredths (1.0 is 100), a recency weight is in thousandths (1.0 is     *)
(* 1000), an entry of mk (weight * brier) is in 1/100000 and a raw score   *)
(* is in 1/100000 (1.0 is 100000).  Event times are whole minutes since    *)
(* CLUSTER_EPOCH_2024, the dispatcher's wall clock is in seconds.          *)
(* An optional value (Python None or a value) is the empty set or a        *)
(* singleton.                                                              *)
(***************************************************************************)
EXTENDS Integers, Sequences, FiniteSets, TLC

VARIABLES
    \* ---- QueryMiners (sandbox task)
    predictions,      \* the predictions table written by upsert_predictions
    taskClock,        \* wall clock of the sandbox task, in ticks of TickMinutes
    lastRun,          \* the inputs and outcome of the last QueryMiners.run
    \* ---- Validator.forward
    now,              \* wall clock of the validator, seconds
    last_query_time,  \* Validator.last_query_time
    blocktime,        \* Validator.blocktime, counts completed forward passes
    db,               \* rows written by miner_batch_update_predictions
    lastForward,      \* the inputs and outcome of the last Validator.forward
    \* ---- Validator.on_event_update
    registry,         \* ids of the events in the active registry
    events,           \* id -> ProviderEvent
    event_predictions,\* id -> uid -> interval_start_minutes -> answer
    miner_reg_time,   \* uid -> registration time (minutes since epoch)
    hookNow,          \* datetime.now() seen by the hook (minutes since epoch)
    exported,         \* ids marked by mark_event_as_exported
    lastHook,         \* the event and outcome of the last hook invocation
    \* ---- Validator.send_interval_stats
    exported_rows,    \* keys of the rows marked by mark_submissions_as_exported
    lastPass,         \* the inputs and outcome of the last export pass
    \* ---- the interval clock
    probe             \* a point in time and the interval starts computed for it

vars == <<predictions, taskClock, lastRun,
          now, last_query_time, blocktime, db, lastForward,
          registry, events, event_predictions, miner_reg_time, hookNow,
          exported, lastHook, exported_rows, lastPass, probe>>

runVars     == <<predictions, taskClock, lastRun>>
forwardVars == <<now, last_query_time, blocktime, db, lastForward>>
hookVars    == <<registry, events, event_predictions, miner_reg_time, hookNow,
                 exported, lastHook>>
exportVars  == <<exported_rows, lastPass>>
clockVars   == <<probe>>

----------------------------------------------------------------------------
(* Program constants *)

CLUSTERED_SUBMISSIONS_INTERVAL_MINUTES == 240

MIN_TIME_BETWEEN_QUERY_MINERS == 300

first_n_intervals == 1

\* 60 * 60 * 4 seconds
SEND_MINER_LOGS_INTERVAL == 14400

(* Bounds of the model *)

NumMiners == 2

MaxRounds == 2

\* the rows of one chunk of an export pass; stands for the 15000 of
\* send_interval_stats, scaled to the handful of rows of the model
ChunkRows == 1

\* the interval clock is probed up to this many minutes on either side of
\* the epoch
MaxMinutes == 500

----------------------------------------------------------------------------
(* Small helpers *)

None == {}

Some(v) == {v}

TheValue(opt) == CHOOSE v \in opt : TRUE

Min(a, b) == IF a <= b THEN a ELSE b

Max(a, b) == IF a >= b THEN a ELSE b

SetMax(S) == CHOOSE x \in S : \A y \in S : y <= x

RECURSIVE SeqSum(_)
SeqSum(s) == IF s = <<>> THEN 0 ELSE Head(s) + SeqSum(Tail(s))

Uids == 0 .. (NumMiners - 1)

EventIds == {"e1", "e2"}

----------------------------------------------------------------------------
(* Interval clock *)

\* int((t - CLUSTER_EPOCH_2024).total_seconds()) // 60 for t a whole number
\* of seconds from the epoch: the floor of the quotient
epoch_minutes(total_seconds) == total_seconds \div 60

\* mutant of interval_start_minutes: rounds towards the epoch on both sides
interval_start_truncating(minutes_since_epoch) ==
    IF minutes_since_epoch >= 0
    THEN minutes_since_epoch
           - (minutes_since_epoch % CLUSTERED_SUBMISSIONS_INTERVAL_MINUTES)
    ELSE 0 - ((0 - minutes_since_epoch)
                - ((0 - minutes_since_epoch) % CLUSTERED_SUBMISSIONS_INTERVAL_MINUTES))

\* QueryMiners.get_interval_start_minutes:
\* minutes_since_epoch - (minutes_since_epoch % CLUSTERED_SUBMISSIONS_INTERVAL_MINUTES)
interval_start_minutes(minutes_since_epoch) ==
    minutes_since_epoch
      - (minutes_since_epoch % CLUSTERED_SUBMISSIONS_INTERVAL_MINUTES)

\* range(start, stop, step) for step > 0, as a sequence
range(start, stop, step) ==
    LET n == IF stop > start THEN ((stop - start) + (step - 1)) \div step ELSE 0
    IN  [k \in 1 .. n |-> start + (k - 1) * step]

----------------------------------------------------------------------------
(* Scoring arithmetic (Validator.on_event_update) *)

\* math.exp(num / den) in millionths, num >= 0, den > 0: the Taylor series,
\* each term truncated to a millionth
RECURSIVE exp_terms(_, _, _, _)
exp_terms(term, num, den, k) ==
    IF term = 0 THEN 0
    ELSE term + exp_terms((term * num) \div (den * k), num, den, k + 1)

exp_micro(num, den) == exp_terms(1000000, num, den, 1)

\* mutant of exp_weight: the sign of the exponent is lost, exp(+i/(total-i))
exp_weight_sign_flipped(total_intervals, current_interval_no) ==
    exp_micro(current_interval_no, total_intervals - current_interval_no) \div 1000

\* math.exp(-(total_intervals / (total_intervals - current_interval_no)) + 1),
\* in thousandths, rounded.  The exponent is
\* -(current_interval_no / (total_intervals - current_interval_no)).
exp_weight(total_intervals, current_interval_no) ==
    LET e == exp_micro(current_interval_no, total_intervals - current_interval_no)
    IN  (1000000000 + (e \div 2)) \div e

\* mutant of wk: every interval has weight 1
wk_flat(total_intervals, current_interval_no) == 1000

\* the recency weight wk of one interval, in thousandths
wk(total_intervals, current_interval_no) ==
    IF current_interval_no + 1 <= first_n_intervals
    THEN 1000
    ELSE exp_weight(total_intervals, current_interval_no)

\* mutant of clamp: the answer is scored as recorded
clamp_as_recorded(ans) == ans

\* ans = max(0, min(1, ans)), in tenths
clamp(ans) == Max(0, Min(10, ans))

\* brier_score = 1 - ((ans - correct_ans) ** 2), in hundredths
brier_score(ans, correct_ans) ==
    100 - ((clamp(ans) - correct_ans) * (clamp(ans) - correct_ans))

\* the window of the settled event pe, as seen at time t (minutes)
cutoff_interval_start_minutes(pe) ==
    pe.cutoff - (pe.cutoff % CLUSTERED_SUBMISSIONS_INTERVAL_MINUTES)

now_interval_start_minutes(t) ==
    t - (t % CLUSTERED_SUBMISSIONS_INTERVAL_MINUTES)

\* mutant of effective_finish_start_minutes: the cutoff alone ends the window
effective_finish_at_cutoff(pe, t) == cutoff_interval_start_minutes(pe)

effective_finish_start_minutes(pe, t) ==
    Min(cutoff_interval_start_minutes(pe), now_interval_start_minutes(t))

start_interval_start_minutes(pe) ==
    pe.registered_date
      - (pe.registered_date % CLUSTERED_SUBMISSIONS_INTERVAL_MINUTES)

total_intervals(pe, t) ==
    (effective_finish_start_minutes(pe, t) - start_interval_start_minutes(pe))
        \div CLUSTERED_SUBMISSIONS_INTERVAL_MINUTES

window(pe, t) ==
    range(start_interval_start_minutes(pe),
          effective_finish_start_minutes(pe, t),
          CLUSTERED_SUBMISSIONS_INTERVAL_MINUTES)

\* mutant of interval_ans: the registration time is ignored
interval_ans_recorded(reg_time, prediction_intervals, interval_start) ==
    IF interval_start \in DOMAIN prediction_intervals
    THEN Some(prediction_intervals[interval_start])
    ELSE None

\* the answer scored for one interval of the general branch: the recorded
\* interval_agg_prediction or None, replaced by 1/2 when the miner registered
\* after the interval's end
interval_ans(reg_time, prediction_intervals, interval_start) ==
    IF reg_time > interval_start + CLUSTERED_SUBMISSIONS_INTERVAL_MINUTES
    THEN Some(5)
    ELSE IF interval_start \in DOMAIN prediction_intervals
         THEN Some(prediction_intervals[interval_start])
         ELSE None

\* mutant of mk_entry: a None answer is scored as 1/2
mk_entry_half(weight, ans, correct_ans) ==
    IF ans = None THEN weight * brier_score(5, correct_ans)
    ELSE weight * brier_score(TheValue(ans), correct_ans)

\* what one interval adds to mk: 0 for a None answer, wk * brier_score otherwise
mk_entry(weight, ans, correct_ans) ==
    IF ans = None THEN 0 ELSE weight * brier_score(TheValue(ans), correct_ans)

\* one iteration of the interval loop: the weight and the mk entry
interval_step(pe, t, reg_time, prediction_intervals, interval_start) ==
    LET current_interval_no ==
            (interval_start - start_interval_start_minutes(pe))
                \div CLUSTERED_SUBMISSIONS_INTERVAL_MINUTES
        weight == wk(total_intervals(pe, t), current_interval_no)
        ans == interval_ans(reg_time, prediction_intervals, interval_start)
    IN  [interval |-> interval_start,
         wk |-> weight,
         mk |-> mk_entry(weight, ans, TheValue(pe.answer))]

\* mutant of final_avg_score: one unit of weight too many in the divisor
final_avg_score_padded(mk_sum, weights_sum) ==
    IF weights_sum > 0 THEN (mk_sum * 1000) \div (weights_sum + 1000) ELSE 0

\* mutant of final_avg_score: a window without weight scores 1
final_avg_score_default_one(mk_sum, weights_sum) ==
    IF weights_sum > 0 THEN (mk_sum * 1000) \div weights_sum ELSE 100000

\* final_avg_score = sum(mk) / weights_sum if weights_sum > 0 else 0
final_avg_score(mk_sum, weights_sum) ==
    IF weights_sum > 0 THEN (mk_sum * 1000) \div weights_sum ELSE 0

\* the general (non azuro) branch for one miner
general_score(pe, t, reg_time, prediction_intervals) ==
    IF reg_time < pe.registered_date /\ DOMAIN prediction_intervals = {}
    THEN [branch |-> "general-silent", steps |-> <<>>, weights_sum |-> 0,
          score |-> 0]
    ELSE LET w == window(pe, t)
             steps == [k \in 1 .. Len(w) |->
                          interval_step(pe, t, reg_time, prediction_intervals, w[k])]
             weights_sum == SeqSum([k \in 1 .. Len(w) |-> steps[k].wk])
             mk_sum == SeqSum([k \in 1 .. Len(w) |-> steps[k].mk])
         IN  [branch |-> "general", steps |-> steps, weights_sum |-> weights_sum,
              score |-> final_avg_score(mk_sum, weights_sum)]

\* mutant of azuro_ans: a silent miner is treated like a new one
azuro_ans_silent_half(pe, reg_time, prediction_intervals) ==
    IF reg_time >= pe.cutoff \/ DOMAIN prediction_intervals = {}
    THEN Some(5)
    ELSE IF 0 \in DOMAIN prediction_intervals
         THEN Some(prediction_intervals[0])
         ELSE Some(prediction_intervals[SetMax(DOMAIN prediction_intervals)])

\* mutant of azuro_ans: the latest interval is taken even when key 0 is there
azuro_ans_latest(pe, reg_time, prediction_intervals) ==
    IF reg_time >= pe.cutoff
    THEN Some(5)
    ELSE IF DOMAIN prediction_intervals = {}
         THEN None
         ELSE Some(prediction_intervals[SetMax(DOMAIN prediction_intervals)])

\* the answer the azuro branch scores: 1/2 for a miner registered at or after
\* the cutoff, nothing (score 0) for a silent one, else interval 0's answer
\* or the answer of the latest interval
azuro_ans(pe, reg_time, prediction_intervals) ==
    IF reg_time >= pe.cutoff
    THEN Some(5)
    ELSE IF DOMAIN prediction_intervals = {}
         THEN None
         ELSE IF 0 \in DOMAIN prediction_intervals
              THEN Some(prediction_intervals[0])
              ELSE Some(prediction_intervals[SetMax(DOMAIN prediction_intervals)])

azuro_score(pe, reg_time, prediction_intervals) ==
    LET ans == azuro_ans(pe, reg_time, prediction_intervals)
    IN  [branch |-> IF ans = None THEN "azuro-silent" ELSE "azuro",
         steps |-> <<>>, weights_sum |-> 0,
         score |-> IF ans = None THEN 0
                   ELSE 1000 * brier_score(TheValue(ans), TheValue(pe.answer))]

\* the body of the loop "for uid in miner_uids"
miner_score(pe, t, reg_time, prediction_intervals) ==
    IF pe.market_type = "azuro"
    THEN azuro_score(pe, reg_time, prediction_intervals)
    ELSE general_score(pe, t, reg_time, prediction_intervals)

----------------------------------------------------------------------------
(* Normalisation of the raw scores of an event *)

\* q * (mult / 10000)^n, rounded down at every step
RECURSIVE decay(_, _, _)
decay(q, mult, n) ==
    IF n = 0 THEN q ELSE decay((q * mult) \div 10000, mult, n - 1)

\* exp(-x) for x >= 0 in hundredths, in 1/100000: the product of the
\* powers of exp(-1), exp(-0.1) and exp(-0.01)
exp_neg(xh) ==
    decay(decay(decay(100000, 3679, xh \div 100), 9048, (xh % 100) \div 10),
          9900, xh % 10)

\* the sum of the entries of a tensor indexed by uid
tensor_sum(v) == SeqSum([k \in 1 .. NumMiners |-> v[k - 1]])

\* the largest raw score
top_score(scores) == SetMax({scores[uid] : uid \in Uids})

\* "if all(score <= 0.0 ...): pass; else: scores[non_zeros] =
\* alpha * scores[non_zeros] + beta * torch.exp(30 * scores[non_zeros])"
\* with alpha = 0 and beta = 1.  exp(30 * score) is held as its ratio to
\* exp(30 * top_score), in 1/100000: the L1 normalisation that follows
\* cancels the common factor.
sharpen(scores) ==
    IF \A uid \in Uids : scores[uid] <= 0
    THEN scores
    ELSE LET top == top_score(scores)
         IN  [uid \in Uids |->
                IF scores[uid] = 0 THEN 0
                ELSE exp_neg((30 * (top - scores[uid])) \div 1000)]

\* mutant of normalize: the scores are left as they are
normalize_unscaled(v) == v

\* torch.nn.functional.normalize(scores, p=1, dim=0): v / max(sum |v|, eps),
\* in 1/10000; a zero tensor stays zero
normalize(v) ==
    LET norm == tensor_sum([uid \in Uids |-> IF v[uid] < 0 THEN 0 - v[uid] ELSE v[uid]])
    IN  IF norm = 0
        THEN [uid \in Uids |-> 0]
        ELSE [uid \in Uids |-> (v[uid] * 10000) \div norm]

----------------------------------------------------------------------------
(* The settlement hook, Validator.on_event_update, and export_scores *)

\* the outcome of a hook invocation that scores nothing:
\*   ret            the value returned to the caller
\*   removed        self.event_provider.remove_event(pe) was called
\*   update_scores  self.update_scores(...) was called
\*   export_scores  self.export_scores(...) was called
\*   exported       mark_event_as_exported(pe) was called
\*   miners         per uid, the outcome of the scoring loop
\*   scores         per uid, the normalised score passed to update_scores
\*   posts          the number of calls of requests.post
\*   response       what the call of requests.post gave
unscored(ret, removed) ==
    [ret |-> ret, removed |-> removed, update_scores |-> FALSE,
     export_scores |-> FALSE, exported |-> FALSE, miners |-> <<>>,
     scores |-> <<>>, posts |-> 0, response |-> "not-sent"]

\* mutants of the unscored outcomes
unknown_answer_deferred == unscored(FALSE, FALSE)

no_predictions_deferred == unscored(FALSE, FALSE)

discarded_returns_true == unscored(TRUE, FALSE)

discarded_not_removed == unscored(FALSE, FALSE)

\* SETTLED, pe.answer is None: "Unknown answer for event, discarding", return True
unknown_answer_result == unscored(TRUE, FALSE)

\* SETTLED, no predictions: "No predictions for {pe} skipping..", return True
no_predictions_result == unscored(TRUE, FALSE)

\* DISCARDED: remove_event(pe), then the final return False
discarded_result == unscored(FALSE, TRUE)

\* any other status: the final return False
other_status_result == unscored(FALSE, FALSE)

\* export_scores: mark_event_as_exported only after a 200 response; a non-200
\* response and an exception are logged
Responses == {"200", "non-200", "exception"}

\* mutant of export_scores: the event is marked after any response
export_scores_any_response(resp) == resp # "exception"

export_scores(resp) == resp = "200"

\* export_scores calls requests.post once, outside any loop
export_posts(resp) == 1

\* SETTLED with an answer and predictions: score every uid, update_scores,
\* export_scores, return True
scored_result(pe, preds, reg, t, resp) ==
    LET miners == [uid \in Uids |-> miner_score(pe, t, reg[uid], preds[uid])]
    IN  [ret |-> TRUE, removed |-> FALSE, update_scores |-> TRUE,
         export_scores |-> TRUE, exported |-> export_scores(resp),
         miners |-> miners,
         scores |-> normalize(sharpen([uid \in Uids |-> miners[uid].score])),
         posts |-> export_posts(resp), response |-> resp]

\* "if not predictions": get_event_predictions returned no miner at all
no_predictions(preds) == \A uid \in DOMAIN preds : DOMAIN preds[uid] = {}

on_event_update(pe, preds, reg, t, resp) ==
    IF pe.status = "SETTLED"
    THEN IF pe.answer = None
         THEN unknown_answer_result
         ELSE IF no_predictions(preds)
              THEN no_predictions_result
              ELSE scored_result(pe, preds, reg, t, resp)
    ELSE IF pe.status = "DISCARDED"
         THEN discarded_result
         ELSE other_status_result

\* EventAggregator.remove_event
remove_event(reg, e) == reg \ {e}

\* the watch loop of the EventAggregator: "Event removed when we return True"
registry_after_hook(reg, e, r) ==
    IF r.ret
    THEN remove_event(reg, e)
    ELSE IF r.removed THEN remove_event(reg, e) ELSE reg

----------------------------------------------------------------------------
(* Inputs of the hook specification *)

\* (registered_date, cutoff, now) of an event, with registered_date <= cutoff
Scenarios ==
    { [registered_date |-> 0,   cutoff |-> 720, now |-> 1000],
      [registered_date |-> 0,   cutoff |-> 720, now |-> 500],
      [registered_date |-> 300, cutoff |-> 500, now |-> 1000],
      [registered_date |-> 300, cutoff |-> 400, now |-> 1000] }

MarketTypes == {"azuro", "ifgames"}

\* the intervals a prediction may have been recorded in, and the answer
\* recorded there (tenths): 0.9, 1.2 and -0.3
RecordedAnswer == (0 :> 9) @@ (240 :> 12) @@ (480 :> (0 - 3))

RecordedSets == { {}, {0}, {240}, {240, 480}, {0, 240, 480} }

PredictionIntervals == { [i \in S |-> RecordedAnswer[i]] : S \in RecordedSets }

\* before every event; at the end of interval 240; inside interval 480
RegTimes == {0 - 10, 480, 600}

GroundTruths == {0, 10}

NoHook == [called |-> FALSE]

NoPass == [ran |-> FALSE, round |-> 0]

NoProbe == [applied |-> FALSE]

InitExportIdle ==
    /\ exported_rows = {}
    /\ lastPass = NoPass

InitClockIdle == probe = NoProbe

InitRunIdle ==
    /\ predictions = {}
    /\ taskClock = 0
    /\ lastRun = [ran |-> FALSE]

InitForwardIdle ==
    /\ now = 0
    /\ last_query_time = 0
    /\ blocktime = 0
    /\ db = {}
    /\ lastForward = [ran |-> FALSE]

InitHook ==
    /\ InitRunIdle
    /\ InitForwardIdle
    /\ InitExportIdle
    /\ InitClockIdle
    /\ registry = {"e1"}
    /\ \E sc \in Scenarios, mt \in MarketTypes :
          /\ events = [e \in {"e1"} |->
                         [status |-> "PENDING", answer |-> None,
                          market_type |-> mt,
                          registered_date |-> sc.registered_date,
                          cutoff |-> sc.cutoff]]
          /\ hookNow = sc.now
    /\ event_predictions \in [{"e1"} -> [Uids -> PredictionIntervals]]
    /\ miner_reg_time \in [Uids -> RegTimes]
    /\ exported = {}
    /\ lastHook = NoHook

\* the upstream provider settles the event (with or without its answer) or
\* discards it; the answer of a settled event may arrive later
ProviderRefresh(e) ==
    /\ e \in registry
    /\ \/ /\ events[e].status = "PENDING"
          /\ \E a \in {None} \cup {Some(y) : y \in GroundTruths} :
                events' = [events EXCEPT ![e].status = "SETTLED", ![e].answer = a]
       \/ /\ events[e].status = "PENDING"
          /\ events' = [events EXCEPT ![e].status = "DISCARDED"]
       \/ /\ events[e].status = "SETTLED"
          /\ events[e].answer = None
          /\ \E y \in GroundTruths :
                events' = [events EXCEPT ![e].answer = Some(y)]
    /\ UNCHANGED <<registry, event_predictions, miner_reg_time, hookNow,
                   exported, lastHook>>
    /\ UNCHANGED <<runVars, forwardVars, exportVars, clockVars>>

\* the watch loop invokes the hook for a registered event
WatchEvent(e) ==
    /\ e \in registry
    /\ \E resp \in Responses :
          /\ lastHook' = [called |-> TRUE, event |-> e, pe |-> events[e],
                          result |-> on_event_update(events[e], event_predictions[e],
                                                     miner_reg_time, hookNow, resp)]
          /\ registry' = registry_after_hook(registry, e, lastHook'.result)
          /\ exported' = IF lastHook'.result.exported
                         THEN exported \cup {e} ELSE exported
    /\ UNCHANGED <<events, event_predictions, miner_reg_time, hookNow>>
    /\ UNCHANGED <<runVars, forwardVars, exportVars, clockVars>>

NextHook ==
    \/ \E e \in {"e1"} : ProviderRefresh(e)
    \/ \E e \in {"e1"} : WatchEvent(e)

SpecHook == InitHook /\ [][NextHook]_vars

----------------------------------------------------------------------------
(* Properties of the settlement hook *)

HookCalled(status) == lastHook.called /\ lastHook.pe.status = status

HookScored == lastHook.called /\ lastHook.result.update_scores

HookPreds == event_predictions[lastHook.event]

HookTruth == TheValue(lastHook.pe.answer)

Scoreless(r) == ~r.update_scores /\ ~r.export_scores /\ ~r.exported

\* the miners the last hook scored in the general branch's interval loop
GeneralMiners ==
    IF HookScored
    THEN {uid \in Uids : lastHook.result.miners[uid].branch = "general"}
    ELSE {}

StepsOf(uid) == lastHook.result.miners[uid].steps

StepIndexes(uid) == 1 .. Len(StepsOf(uid))

IntervalEnd(interval_start) ==
    interval_start + CLUSTERED_SUBMISSIONS_INTERVAL_MINUTES

\* the weight the code's formula gives the k-th interval of the window
ExpectedWeight(k) == wk(total_intervals(lastHook.pe, hookNow), k - 1)

C5_DiscardedDropped ==
    HookCalled("DISCARDED")
        => /\ Scoreless(lastHook.result)
           /\ lastHook.event \notin registry
           /\ lastHook.event \notin exported

C5_Witness == HookCalled("DISCARDED") /\ registry = {}

BeforeRegistration(uid) ==
    {k \in StepIndexes(uid) :
        IntervalEnd(StepsOf(uid)[k].interval) <= miner_reg_time[uid]}

\* C8 as stated: for a peer registered after the window began, an interval
\* lying entirely before its registration adds nothing to the weighted sum
\* and nothing to the weight sum.
C8_Excluded ==
    \A uid \in GeneralMiners :
        miner_reg_time[uid] > start_interval_start_minutes(lastHook.pe)
            => /\ \A k \in BeforeRegistration(uid) : StepsOf(uid)[k].mk = 0
               /\ lastHook.result.miners[uid].weights_sum =
                     SeqSum([k \in StepIndexes(uid) |->
                               IF k \in BeforeRegistration(uid) THEN 0
                               ELSE ExpectedWeight(k)])

\* C8 amended: an interval that ended before the peer's registration is not
\* excluded: it is scored as answer 0.5 whatever was recorded for it, adding
\* w_i * (1 - (0.5 - y)^2) to the weighted sum and w_i to the weight sum.
C8_ScoredAsHalf ==
    \A uid \in GeneralMiners :
        /\ lastHook.result.miners[uid].weights_sum =
              SeqSum([k \in StepIndexes(uid) |-> ExpectedWeight(k)])
        /\ \A k \in StepIndexes(uid) :
              miner_reg_time[uid] > IntervalEnd(StepsOf(uid)[k].interval)
                  => StepsOf(uid)[k].mk = ExpectedWeight(k) * brier_score(5, HookTruth)

\* a miner registered inside the window, with a recorded answer in an interval
\* that ended before its registration
C8_Witness ==
    \E uid \in GeneralMiners : \E k \in StepIndexes(uid) :
        /\ miner_reg_time[uid] > start_interval_start_minutes(lastHook.pe)
        /\ miner_reg_time[uid] > IntervalEnd(StepsOf(uid)[k].interval)
        /\ StepsOf(uid)[k].interval \in DOMAIN HookPreds[uid]
        /\ StepsOf(uid)[k].mk > 0

\* the miners registered before the window's start without any submission
SilentBeforeWindow ==
    {uid \in Uids :
        /\ miner_reg_time[uid] < start_interval_start_minutes(lastHook.pe)
        /\ DOMAIN HookPreds[uid] = {}}

\* C9: for a settled event, in the instantaneous and in the general branch,
\* a peer registered before the window's start with no recorded submission
\* gets raw score 0.
C9_SilentScoresZero ==
    HookScored => \A uid \in SilentBeforeWindow : lastHook.result.miners[uid].score = 0

C9_Witness ==
    /\ HookScored
    /\ lastHook.pe.market_type = "azuro"
    /\ \E uid \in SilentBeforeWindow : lastHook.result.miners[uid].score = 0
    /\ \E uid \in Uids : lastHook.result.miners[uid].score > 0

----------------------------------------------------------------------------
(* The sandbox dispatch task, QueryMiners *)

\* timeout = 120 seconds, in minutes
query_timeout_minutes == 2

\* a reply (EventsPredictionSynapse) is
\*   events_ok  whether its events attribute is a mapping
\*   events     unique_event_id -> entry, an entry being
\*                is_mapping   whether the entry is a mapping (has .get)
\*                probability  the entry's "probability", None or a value
entry(p) == [is_mapping |-> TRUE, probability |-> p]

bad_entry == [is_mapping |-> FALSE, probability |-> None]

reply_answers == [events_ok |-> TRUE,
                  events |-> ("e1" :> entry(Some(3))) @@ ("e2" :> entry(Some(7)))]

reply_partial == [events_ok |-> TRUE,
                  events |-> ("e1" :> entry(Some(7))) @@ ("e2" :> entry(None))]

reply_no_events == [events_ok |-> FALSE, events |-> <<>>]

reply_bad_entry == [events_ok |-> TRUE,
                    events |-> ("e1" :> bad_entry) @@ ("e2" :> entry(Some(3)))]

\* a reply every entry of which can be read
well_formed(reply) ==
    reply.events_ok /\ \A e \in DOMAIN reply.events : reply.events[e].is_mapping

RunReplies == {reply_answers, reply_partial, reply_no_events}

\* the key of a row of the predictions table
row_key(row) == <<row.unique_event_id, row.minerUid, row.interval_start_minutes>>

\* mutant of parse_neuron_predictions: block and interval_start_minutes swapped
parse_swapped(block, interval_start, uid, neuron_predictions) ==
    IF ~well_formed(neuron_predictions)
    THEN [raised |-> TRUE, rows |-> {}]
    ELSE [raised |-> FALSE,
          rows |-> { [unique_event_id |-> e, minerUid |-> uid,
                      interval_start_minutes |-> block,
                      answer |-> neuron_predictions.events[e].probability,
                      block |-> interval_start]
                     : e \in DOMAIN neuron_predictions.events }]

\* parse_neuron_predictions: one row per entry of the reply; reading a reply
\* without events mapping, or an entry that is no mapping, raises
parse_neuron_predictions(block, interval_start, uid, neuron_predictions) ==
    IF ~well_formed(neuron_predictions)
    THEN [raised |-> TRUE, rows |-> {}]
    ELSE [raised |-> FALSE,
          rows |-> { [unique_event_id |-> e, minerUid |-> uid,
                      interval_start_minutes |-> interval_start,
                      answer |-> neuron_predictions.events[e].probability,
                      block |-> block]
                     : e \in DOMAIN neuron_predictions.events }]

\* DatabaseOperations.upsert_predictions: insert, or on a key conflict
\* overwrite the stored answer and block
upsert_predictions(table, rows) ==
    {old \in table : \A new \in rows : row_key(new) # row_key(old)} \cup rows

\* the keys of rows that replace a row holding another answer
conflicts(table, rows) ==
    {row_key(new) : new \in
        {r \in rows : \E old \in table :
            row_key(old) = row_key(r) /\ old.answer # r.answer}}

\* the uids of a mapping in iteration order (ascending, as metagraph.uids)
RECURSIVE uid_order(_)
uid_order(S) ==
    IF S = {} THEN <<>>
    ELSE LET u == CHOOSE x \in S : \A y \in S : x <= y
         IN  <<u>> \o uid_order(S \ {u})

\* store_predictions: per uid, parse and upsert; an exception ends the loop
RECURSIVE store_loop(_, _, _, _, _)
store_loop(acc, block, interval_start, neurons_predictions, uids) ==
    IF uids = <<>> THEN acc
    ELSE LET uid == Head(uids)
             parsed == parse_neuron_predictions(block, interval_start, uid,
                                                neurons_predictions[uid])
         IN  IF parsed.raised
             THEN [acc EXCEPT !.raised = TRUE]
             ELSE store_loop(
                    [table |-> upsert_predictions(acc.table, parsed.rows),
                     raised |-> FALSE,
                     stored |-> acc.stored \cup {uid},
                     conflicts |-> acc.conflicts
                                     \cup conflicts(acc.table, parsed.rows)],
                    block, interval_start, neurons_predictions, Tail(uids))

store_predictions(table, block, interval_start, neurons_predictions) ==
    store_loop([table |-> table, raised |-> FALSE, stored |-> {}, conflicts |-> {}],
               block, interval_start, neurons_predictions,
               uid_order(DOMAIN neurons_predictions))

\* the time between two runs of the task: one minute less than an interval
task_period == CLUSTERED_SUBMISSIONS_INTERVAL_MINUTES - 1

NoRun == [ran |-> FALSE, round |-> 0]

InitHookIdle ==
    /\ registry = {}
    /\ events = <<>>
    /\ event_predictions = <<>>
    /\ miner_reg_time = [uid \in Uids |-> 0]
    /\ hookNow = 0
    /\ exported = {}
    /\ lastHook = NoHook

InitRun ==
    /\ predictions = {}
    /\ taskClock = 0
    /\ lastRun = NoRun
    /\ InitForwardIdle
    /\ InitHookIdle
    /\ InitExportIdle
    /\ InitClockIdle

\* QueryMiners.run with no event to predict, or no serving axon: returns
RunNothing ==
    /\ lastRun.round < MaxRounds
    /\ taskClock' = taskClock + task_period
    /\ lastRun' = [ran |-> FALSE, round |-> lastRun.round + 1]
    /\ UNCHANGED predictions
    /\ UNCHANGED <<forwardVars, hookVars, exportVars, clockVars>>

\* mutant of collection_time: the time at which the round was triggered
collection_time_at_trigger(started, duration) == started

\* the time at which get_interval_start_minutes reads the clock: after the
\* awaited query_neurons has returned
collection_time(started, duration) == started + duration

\* QueryMiners.run: query the serving axons, label the replies with the
\* interval of the time after the query, store them
Run(serving, replies, duration) ==
    /\ lastRun.round < MaxRounds
    /\ serving # {}
    /\ LET block == taskClock
           interval_start ==
               interval_start_minutes(collection_time(taskClock, duration))
       IN  \E out \in {store_predictions(predictions, block, interval_start,
                                         replies)} :
              /\ predictions' = out.table
              /\ lastRun' =
                    [ran |-> TRUE, round |-> lastRun.round + 1,
                     replies |-> replies, block |-> block,
                     collected |-> taskClock + duration,
                     interval_start_minutes |-> interval_start,
                     raised |-> out.raised, stored |-> out.stored,
                     conflicts |-> out.conflicts]
    /\ taskClock' = taskClock + task_period
    /\ UNCHANGED <<forwardVars, hookVars, exportVars, clockVars>>

NextRun ==
    \/ RunNothing
    \/ \E serving \in SUBSET Uids :
         \E replies \in [serving -> RunReplies] :
           \E duration \in {0, query_timeout_minutes} :
              Run(serving, replies, duration)

SpecRun == InitRun /\ [][NextRun]_vars

\* C1: in a dispatch round, the submissions of every peer whose reply is
\* well formed are recorded in the store, whatever the other peers replied.
C1_PeersIsolated ==
    lastRun.ran =>
        \A uid \in DOMAIN lastRun.replies :
            well_formed(lastRun.replies[uid]) =>
                \A e \in DOMAIN lastRun.replies[uid].events :
                    \E row \in predictions :
                        /\ row_key(row) = <<e, uid, lastRun.interval_start_minutes>>
                        /\ row.answer = lastRun.replies[uid].events[e].probability

\* C10: the store holds at most one row per (event, peer, interval) key, and
\* after a round the row of every submission it stored carries the answer of
\* that round.
C10_OneRowLatestAnswer ==
    /\ \A r1, r2 \in predictions : row_key(r1) = row_key(r2) => r1 = r2
    /\ lastRun.ran =>
          \A uid \in lastRun.stored :
              \A e \in DOMAIN lastRun.replies[uid].events :
                  \E row \in predictions :
                      /\ row_key(row) = <<e, uid, lastRun.interval_start_minutes>>
                      /\ row.answer = lastRun.replies[uid].events[e].probability

\* a round has replaced the answer of a row written by an earlier round
C10_Witness ==
    /\ lastRun.ran
    /\ lastRun.conflicts # {}
    /\ Cardinality(predictions) = Cardinality({row_key(r) : r \in predictions})

----------------------------------------------------------------------------
(* The validator's dispatch round, Validator.forward *)

ForwardReplies == {reply_answers, reply_no_events, reply_bad_entry}

\* the events of the EventAggregator's registry during the rounds
RegisteredEvents == EventIds

EventOrder == <<"e1", "e2">>

\* EventAggregator.get_registered_event
get_registered_event(unique_event_id) ==
    IF unique_event_id \in RegisteredEvents THEN Some(unique_event_id) ELSE None

\* the reason code appended to details for one entry; the registered events
\* of the model have an integration and are open for submission
details_of(provider_event, score) ==
    IF provider_event = None THEN "non-registered-event"
    ELSE IF score = None THEN "no-prediction"
    ELSE "valid"

\* the body of the inner loop for one entry of a reply: nothing is appended
\* when event_data.get raises (the except clause counts the error)
entry_rows(uid, unique_event_id, event_data) ==
    IF ~event_data.is_mapping
    THEN <<>>
    ELSE LET score == event_data.probability
             provider_event == get_registered_event(unique_event_id)
         IN  << [provider_event |-> provider_event,
                 unique_event_id |-> unique_event_id,
                 minerUid |-> uid,
                 answer |-> score,
                 details |-> details_of(provider_event, score)] >>

RECURSIVE reply_rows(_, _, _)
reply_rows(uid, resp, ids) ==
    IF ids = <<>> THEN <<>>
    ELSE (IF Head(ids) \in DOMAIN resp.events
          THEN entry_rows(uid, Head(ids), resp.events[Head(ids)])
          ELSE <<>>)
         \o reply_rows(uid, resp, Tail(ids))

\* the loop "for uid, resp in zip(miner_uids, responses)": resp.events.items()
\* is evaluated outside the try, so a reply without events mapping raises
\* out of forward
RECURSIVE forward_loop(_, _, _)
forward_loop(acc, responses, uids) ==
    IF uids = <<>> THEN acc
    ELSE IF ~responses[Head(uids)].events_ok
         THEN [acc EXCEPT !.raised = TRUE]
         ELSE forward_loop(
                [acc EXCEPT !.rows = acc.rows
                      \o reply_rows(Head(uids), responses[Head(uids)], EventOrder)],
                responses, Tail(uids))

\* EventAggregator.miner_batch_update_predictions: the valid rows of the
\* payload are upserted by (event, miner, interval)
miner_batch_update_predictions(table, payload, block_start, interval_start) ==
    upsert_predictions(table,
        { [unique_event_id |-> payload[k].unique_event_id,
           minerUid |-> payload[k].minerUid,
           interval_start_minutes |-> interval_start,
           answer |-> payload[k].answer,
           block |-> block_start]
          : k \in {i \in 1 .. Len(payload) : payload[i].details = "valid"} })

\* the rate-limit gate at the end of forward: the time at which forward ends,
\* after "await asyncio.sleep(wait_time)" when not enough time has elapsed
after_wait(t, last_query) ==
    IF t - last_query < MIN_TIME_BETWEEN_QUERY_MINERS
    THEN t + (MIN_TIME_BETWEEN_QUERY_MINERS - (t - last_query))
    ELSE t

\* seconds from the start of forward to the peer query, and from the peer
\* query to the end of the processing of the replies
PreQueryDelays == {0, 100}

ProcessingDelays == {0, 400}

NoForward == [ran |-> FALSE, round |-> 0, queries |-> <<>>]

\* __init__ ends, and sets last_query_time, 200 seconds before the end of
\* the first interval
InitForward ==
    /\ now = (CLUSTERED_SUBMISSIONS_INTERVAL_MINUTES * 60) - 200
    /\ last_query_time = now
    /\ blocktime = 0
    /\ db = {}
    /\ lastForward = NoForward
    /\ InitRunIdle
    /\ InitHookIdle
    /\ InitExportIdle
    /\ InitClockIdle

\* one call of Validator.forward
Forward(responses, pre, dur) ==
    /\ lastForward.round < MaxRounds
    /\ LET block_start == now
           query_time == now + pre
           collected == query_time + dur
           interval_start == interval_start_minutes(collected \div 60)
       IN  \E out \in {forward_loop([raised |-> FALSE, rows |-> <<>>], responses,
                                    uid_order(DOMAIN responses))} :
           /\ lastForward' =
                 [ran |-> TRUE, round |-> lastForward.round + 1,
                  responses |-> responses,
                  interval_start_minutes |-> interval_start,
                  raised |-> out.raised,
                  \* the query times of the passes that returned normally
                  \* since the last pass that raised
                  queries |-> IF out.raised THEN <<>>
                              ELSE Append(lastForward.queries, query_time)]
           /\ IF out.raised
              THEN \* the exception leaves forward before the payload is
                   \* written and before the rate-limit gate
                   /\ now' = collected
                   /\ UNCHANGED <<db, blocktime, last_query_time>>
              ELSE /\ db' = IF Len(out.rows) > 0
                            THEN miner_batch_update_predictions(
                                     db, out.rows, block_start, interval_start)
                            ELSE db
                   /\ blocktime' = blocktime + 1
                   /\ now' = after_wait(collected, last_query_time)
                   /\ last_query_time' = now'
    /\ UNCHANGED <<runVars, hookVars, exportVars, clockVars>>

NextForward ==
    \E responses \in [Uids -> ForwardReplies] :
      \E pre \in PreQueryDelays : \E dur \in ProcessingDelays :
         Forward(responses, pre, dur)

SpecForward == InitForward /\ [][NextForward]_vars

\* C6: the peer queries of two successive dispatch rounds (here: of two
\* successive rounds that both returned normally) are issued at least 300
\* time units apart.
C6_QueriesApart ==
    \A k \in 1 .. Len(lastForward.queries) - 1 :
        lastForward.queries[k + 1] - lastForward.queries[k]
            >= MIN_TIME_BETWEEN_QUERY_MINERS

----------------------------------------------------------------------------
(* One dispatch round of QueryMiners, from building the request on *)

\* the metadata column of an event row: a JSON object, text that is no
\* JSON, or NULL
Metadata == {"json", "not-json", "missing"}

\* json.loads(event[6]): raises on text that is no JSON and on None
json_loads_raises(metadata) == metadata # "json"

\* make_predictions_synapse: one entry per event, probability None; the
\* metadata of every event is parsed outside any try, so one that cannot be
\* parsed raises out of the function
make_predictions_synapse(event_ids, metadata) ==
    IF \E e \in event_ids : json_loads_raises(metadata[e])
    THEN [raised |-> TRUE, events |-> <<>>]
    ELSE [raised |-> FALSE, events |-> [e \in event_ids |-> entry(None)]]

\* the synapse an axon that did not respond in time is paired with: the
\* request, unanswered
reply_timeout ==
    [events_ok |-> TRUE,
     events |-> make_predictions_synapse(EventIds, [e \in EventIds |-> "json"]).events]

\* a reply that leaves out a requested event
reply_omits == [events_ok |-> TRUE, events |-> ("e1" :> entry(Some(3)))]

\* a reply that carries an event that was not requested and is not registered
reply_unknown ==
    [events_ok |-> TRUE,
     events |-> ("e1" :> entry(Some(3))) @@ ("e2" :> entry(None))
                  @@ ("eX" :> entry(Some(7)))]

RoundReplies ==
    {reply_answers, reply_partial, reply_timeout, reply_omits, reply_unknown}

\* the task starts its round at any point of its period
StartClocks == {0, task_period, 2 * task_period}

InitRound ==
    /\ predictions = {}
    /\ taskClock \in StartClocks
    /\ lastRun = NoRun
    /\ InitForwardIdle
    /\ InitHookIdle
    /\ InitExportIdle
    /\ InitClockIdle

\* QueryMiners.run when make_predictions_synapse raises: nothing is queried
RunRaises(metadata) ==
    /\ make_predictions_synapse(EventIds, metadata).raised
    /\ taskClock' = taskClock + task_period
    /\ lastRun' = [ran |-> FALSE, round |-> lastRun.round + 1,
                   metadata |-> metadata]
    /\ UNCHANGED predictions
    /\ UNCHANGED <<forwardVars, hookVars, exportVars, clockVars>>

NextRound ==
    \/ lastRun.round = 0 /\ RunNothing
    \/ \E metadata \in [EventIds -> Metadata] :
         lastRun.round = 0 /\ RunRaises(metadata)
    \/ \E serving \in SUBSET Uids :
         \E replies \in [serving -> RoundReplies] :
           \E duration \in {0, query_timeout_minutes} :
              lastRun.round = 0 /\ Run(serving, replies, duration)

SpecRound == InitRound /\ [][NextRound]_vars

\* the rows the last round wrote
RoundRows == {row \in predictions : row.block = lastRun.block}

\* whether a reply answers an event
answered(reply, e) ==
    e \in DOMAIN reply.events /\ reply.events[e].probability # None

\* C11: a round that queried N peers for the M open events records at most
\* N * M submissions, whatever the peers replied, and for every peer and
\* requested event the peer did not answer it records exactly one submission
\* with an absent answer.
C11_BoundedOnePerPair ==
    lastRun.ran =>
        /\ Cardinality(RoundRows)
             <= Cardinality(DOMAIN lastRun.replies) * Cardinality(EventIds)
        /\ \A uid \in DOMAIN lastRun.replies :
             \A e \in EventIds :
               ~answered(lastRun.replies[uid], e) =>
                  Cardinality({row \in RoundRows :
                      /\ row_key(row) = <<e, uid, lastRun.interval_start_minutes>>
                      /\ row.answer = None}) = 1

----------------------------------------------------------------------------
(* Properties of the normalisation *)

\* the raw score of a uid in the last scoring hook
RawScore(uid) == lastHook.result.miners[uid].score

\* C12: after normalisation, the scores of an event with at least one
\* positive raw score sum to 1 (up to one unit of rounding per entry), and
\* the scores of an event whose raw scores are all 0 are all 0.
C12_NormalisedSum ==
    HookScored =>
        /\ (\E uid \in Uids : RawScore(uid) > 0) =>
              /\ tensor_sum(lastHook.result.scores) <= 10000
              /\ tensor_sum(lastHook.result.scores) >= 10000 - NumMiners
        /\ (\A uid \in Uids : RawScore(uid) = 0) =>
              \A uid \in Uids : lastHook.result.scores[uid] = 0

\* an event with a zero and a positive raw score has been normalised
C12_Witness ==
    /\ HookScored
    /\ \E uid \in Uids : RawScore(uid) = 0
    /\ \E uid \in Uids : RawScore(uid) > 0 /\ RawScore(uid) < 100000
    /\ tensor_sum(lastHook.result.scores) = 10000

\* an event whose raw scores are all 0 has been normalised
C12_WitnessAllZero ==
    /\ HookScored
    /\ \A uid \in Uids : RawScore(uid) = 0 /\ lastHook.result.scores[uid] = 0

----------------------------------------------------------------------------
(* Properties of the azuro branch *)

\* the last hook scored an azuro event
AzuroScored == HookScored /\ lastHook.pe.market_type = "azuro"

\* the plain Brier complement of one answer, in the units of a raw score
PlainBrier(ans) == 1000 * brier_score(ans, HookTruth)

\* the first interval of the scoring window of the settled event
FirstInterval == start_interval_start_minutes(lastHook.pe)

\* C13 as stated: for an azuro event, a peer with a recorded answer in the
\* first interval of the event's scoring window is scored on that answer, a
\* peer with recorded answers but none in the first interval is scored on
\* its latest one, and the score is the plain Brier complement of that answer.
C13_FirstIntervalOfWindow ==
    AzuroScored =>
        \A uid \in Uids :
            LET pi == HookPreds[uid]
            IN  /\ FirstInterval \in DOMAIN pi =>
                      RawScore(uid) = PlainBrier(pi[FirstInterval])
                /\ (DOMAIN pi # {} /\ FirstInterval \notin DOMAIN pi) =>
                      RawScore(uid) = PlainBrier(pi[SetMax(DOMAIN pi)])

\* C13, amended: for an azuro event, a peer registered before the cutoff is
\* scored on the answer recorded under interval key 0 when there is one, and
\* on the answer of its latest recorded interval otherwise; a peer registered
\* at or after the cutoff is scored on 1/2; the score is the plain Brier
\* complement of that one answer, without interval weights.
C13_KeyZeroThenLatest ==
    AzuroScored =>
        \A uid \in Uids :
            LET pi == HookPreds[uid]
            IN  /\ lastHook.result.miners[uid].steps = <<>>
                /\ miner_reg_time[uid] >= lastHook.pe.cutoff =>
                      RawScore(uid) = PlainBrier(5)
                /\ (miner_reg_time[uid] < lastHook.pe.cutoff /\ 0 \in DOMAIN pi) =>
                      RawScore(uid) = PlainBrier(pi[0])
                /\ (miner_reg_time[uid] < lastHook.pe.cutoff /\ DOMAIN pi # {}
                      /\ 0 \notin DOMAIN pi) =>
                      RawScore(uid) = PlainBrier(pi[SetMax(DOMAIN pi)])

\* an azuro event whose window does not start at 0 was scored: one peer has
\* answers in the first and in a later interval and was scored on the later
\* one, another has an answer under key 0 and later ones and was scored on
\* key 0
C13_Witness ==
    /\ AzuroScored
    /\ FirstInterval # 0
    /\ \E uid \in Uids :
          /\ miner_reg_time[uid] < lastHook.pe.cutoff
          /\ FirstInterval \in DOMAIN HookPreds[uid]
          /\ 0 \notin DOMAIN HookPreds[uid]
          /\ RawScore(uid) # PlainBrier(HookPreds[uid][FirstInterval])
    /\ \E uid \in Uids :
          /\ miner_reg_time[uid] < lastHook.pe.cutoff
          /\ {0, FirstInterval} \subseteq DOMAIN HookPreds[uid]
          /\ RawScore(uid) = PlainBrier(HookPreds[uid][0])
          /\ RawScore(uid) # PlainBrier(HookPreds[uid][SetMax(DOMAIN HookPreds[uid])])

----------------------------------------------------------------------------
(* The settlement hook for peers that answer the same value in every *)
(* interval they answer, the value being one of the ground truths     *)

\* no answer, answers from the second interval on, answers in every interval
ConstantSets == { {}, {240, 480}, {0, 240, 480} }

ConstantPredictionIntervals ==
    { [i \in S |-> a] : S \in ConstantSets, a \in GroundTruths }

\* registered before every event, or inside interval 480
ConstantRegTimes == {0 - 10, 600}

InitHookConstant ==
    /\ InitRunIdle
    /\ InitForwardIdle
    /\ InitExportIdle
    /\ InitClockIdle
    /\ registry = {"e1"}
    /\ \E sc \in Scenarios :
          /\ events = [e \in {"e1"} |->
                         [status |-> "PENDING", answer |-> None,
                          market_type |-> "ifgames",
                          registered_date |-> sc.registered_date,
                          cutoff |-> sc.cutoff]]
          /\ hookNow = sc.now
    /\ event_predictions \in [{"e1"} -> [Uids -> ConstantPredictionIntervals]]
    /\ miner_reg_time \in [Uids -> ConstantRegTimes]
    /\ exported = {}
    /\ lastHook = NoHook

SpecHookConstant == InitHookConstant /\ [][NextHook]_vars

\* the intervals of the scoring window of the settled event
HookWindow ==
    LET w == window(lastHook.pe, hookNow) IN {w[k] : k \in 1 .. Len(w)}

\* the peer has, in every interval of the window, a recorded answer equal to
\* the ground truth
PerfectPeer(uid) ==
    \A i \in HookWindow :
        i \in DOMAIN HookPreds[uid] /\ HookPreds[uid][i] = HookTruth

\* every step of the peer's interval loop has Brier complement 1 and the
\* peer's raw score is exactly 1
PerfectScore(uid) ==
    /\ \A k \in StepIndexes(uid) : StepsOf(uid)[k].mk = StepsOf(uid)[k].wk * 100
    /\ RawScore(uid) = 100000

\* C14 as stated: in the general branch, a peer whose recorded answer in
\* every interval of the scoring window equals the ground truth has Brier
\* complement 1 in every interval and a raw score of exactly 1.
C14_PerfectPeer ==
    (HookScored /\ lastHook.pe.market_type # "azuro") =>
        \A uid \in Uids : PerfectPeer(uid) => PerfectScore(uid)

\* C14, amended: in the general branch, when the scoring window has at least
\* one interval, a peer that registered no later than the end of the first
\* interval and whose recorded answer in every interval of the window equals
\* the ground truth has Brier complement 1 in every interval and a raw score
\* of exactly 1.
C14_PerfectPeerRegistered ==
    (HookScored /\ lastHook.pe.market_type # "azuro") =>
        \A uid \in Uids :
            (/\ HookWindow # {}
             /\ \A i \in HookWindow : miner_reg_time[uid] <= IntervalEnd(i)
             /\ PerfectPeer(uid)) => PerfectScore(uid)

\* a window of several intervals was scored for a peer with the ground truth
\* in each of them, and for a peer that missed the truth
C14_Witness ==
    /\ HookScored
    /\ lastHook.pe.market_type # "azuro"
    /\ Cardinality(HookWindow) > 1
    /\ \E uid \in Uids :
          /\ PerfectPeer(uid)
          /\ \A i \in HookWindow : miner_reg_time[uid] <= IntervalEnd(i)
          /\ Len(StepsOf(uid)) = Cardinality(HookWindow)
          /\ RawScore(uid) = 100000
    /\ \E uid \in Uids : RawScore(uid) < 100000

----------------------------------------------------------------------------
(* Properties of export_scores *)

\* C15: the results of a scored event are posted once; the event is marked
\* exported when the response is 200, and only then: after a non-200
\* response or an exception it is not marked, and it is not sent again in
\* the same invocation.
C15_MarkedOnlyAfter200 ==
    /\ HookScored =>
          /\ lastHook.result.posts = 1
          /\ lastHook.result.exported <=> lastHook.result.response = "200"
          /\ lastHook.event \in exported <=> lastHook.result.response = "200"
    /\ \A e \in exported :
          /\ lastHook.called
          /\ lastHook.event = e
          /\ lastHook.result.response = "200"

\* the results of a scored event were rejected and the event is not marked
C15_Witness ==
    /\ HookScored
    /\ lastHook.result.response = "non-200"
    /\ lastHook.result.posts = 1
    /\ lastHook.event \notin exported

\* C16: a settled event whose results were not accepted (non-200 response or
\* exception) is not signalled as consumed: the hook does not return true for
\* it and it stays in the active registry, so that a later invocation retries.
C16_FailedExportKept ==
    (HookScored /\ lastHook.result.response # "200") =>
        /\ ~lastHook.result.ret
        /\ lastHook.event \in registry

----------------------------------------------------------------------------
(* The interval export pass, Validator.send_interval_stats *)

\* EventAggregator.get_all_non_exported_event_predictions: the rows of the
\* intervals from begin (included) to end (excluded) that are not marked
get_all_non_exported_event_predictions(table, marked, begin, end) ==
    {row \in table : /\ begin <= row.interval_start_minutes
                     /\ row.interval_start_minutes < end
                     /\ row_key(row) \notin marked}

\* EventAggregator.mark_submissions_as_exported: marks every row of the range
mark_submissions_as_exported(table, marked, begin, end) ==
    marked \cup {row_key(row) : row \in
                    {r \in table : /\ begin <= r.interval_start_minutes
                                   /\ r.interval_start_minutes < end}}

\* the rows of a query result in their order: by interval, then by uid
RECURSIVE row_order(_)
row_order(S) ==
    IF S = {} THEN <<>>
    ELSE LET first == CHOOSE x \in S : \A y \in S :
                 \/ x.interval_start_minutes < y.interval_start_minutes
                 \/ /\ x.interval_start_minutes = y.interval_start_minutes
                    /\ x.minerUid <= y.minerUid
         IN  <<first>> \o row_order(S \ {first})

\* split_chunks(list, n): consecutive chunks of at most n elements
RECURSIVE split_chunks(_, _)
split_chunks(list, n) ==
    IF list = <<>> THEN <<>>
    ELSE <<SubSeq(list, 1, Min(n, Len(list)))>>
            \o split_chunks(SubSeq(list, n + 1, Len(list)), n)

\* the keys of the rows of the first n chunks
RECURSIVE chunk_keys(_, _)
chunk_keys(chunks, n) ==
    IF n = 0 THEN {}
    ELSE chunk_keys(chunks, n - 1)
            \cup {row_key(chunks[n][k]) : k \in 1 .. Len(chunks[n])}

\* mutant of pass_marks: the range is marked whether or not a chunk failed
pass_marks_always(sent_all, table, marked, begin, end) ==
    mark_submissions_as_exported(table, marked, begin, end)

\* the try block of send_interval_stats: mark_submissions_as_exported comes
\* after the loop over the chunks, so an exception raised while a chunk is
\* sent skips it
pass_marks(sent_all, table, marked, begin, end) ==
    IF sent_all
    THEN mark_submissions_as_exported(table, marked, begin, end)
    ELSE marked

\* the rows the store may hold when the export task starts
ExportRows ==
    { [unique_event_id |-> "e1", minerUid |-> uid,
       interval_start_minutes |-> i, answer |-> Some(3), block |-> 0]
      : uid \in Uids, i \in {0, CLUSTERED_SUBMISSIONS_INTERVAL_MINUTES} }

NoPreviousPass == [failed |-> FALSE, read |-> {}, sent |-> {}]

\* initialize_provider schedules track_interval_stats at the start of the
\* third interval
InitExport ==
    /\ now = 2 * CLUSTERED_SUBMISSIONS_INTERVAL_MINUTES * 60
    /\ last_query_time = now
    /\ blocktime = 0
    /\ db \in SUBSET ExportRows
    /\ lastForward = NoForward
    /\ exported_rows = {}
    /\ lastPass = NoPass
    /\ InitRunIdle
    /\ InitHookIdle
    /\ InitClockIdle

\* one turn of track_interval_stats: send_interval_stats, then the sleep of
\* SEND_MINER_LOGS_INTERVAL.  fail_at is the chunk whose send_interval_data
\* raises, 0 when none does.
SendIntervalStats(fail_at) ==
    /\ lastPass.round < MaxRounds
    /\ LET minutes_since_epoch == now \div 60
           previous_interval_start_minutes ==
               minutes_since_epoch
               - (minutes_since_epoch % CLUSTERED_SUBMISSIONS_INTERVAL_MINUTES)
               - CLUSTERED_SUBMISSIONS_INTERVAL_MINUTES
           previous_m20_interval_start_minutes ==
               minutes_since_epoch
               - (minutes_since_epoch % CLUSTERED_SUBMISSIONS_INTERVAL_MINUTES)
               - (CLUSTERED_SUBMISSIONS_INTERVAL_MINUTES * 20)
           predictions_data ==
               get_all_non_exported_event_predictions(db, exported_rows,
                   previous_m20_interval_start_minutes,
                   previous_interval_start_minutes)
           chunk_metrics == split_chunks(row_order(predictions_data), ChunkRows)
           failed == fail_at # 0
           sent_all == predictions_data # {} /\ ~failed
       IN  /\ fail_at \in 0 .. Len(chunk_metrics)
           /\ exported_rows' =
                 pass_marks(sent_all, db, exported_rows,
                            previous_m20_interval_start_minutes,
                            previous_interval_start_minutes)
           /\ lastPass' =
                 [ran |-> TRUE, round |-> lastPass.round + 1,
                  begin |-> previous_m20_interval_start_minutes,
                  end |-> previous_interval_start_minutes,
                  read |-> {row_key(row) : row \in predictions_data},
                  sent |-> chunk_keys(chunk_metrics,
                              IF failed THEN fail_at - 1 ELSE Len(chunk_metrics)),
                  failed |-> failed,
                  before |-> exported_rows,
                  previous |-> IF lastPass.ran
                               THEN [failed |-> lastPass.failed,
                                     read |-> lastPass.read,
                                     sent |-> lastPass.sent]
                               ELSE NoPreviousPass]
           /\ now' = now + (IF sent_all THEN 4 ELSE 0) + SEND_MINER_LOGS_INTERVAL
    /\ UNCHANGED <<last_query_time, blocktime, db, lastForward>>
    /\ UNCHANGED <<runVars, hookVars, clockVars>>

NextExport == \E fail_at \in 0 .. (2 * (NumMiners + 1)) : SendIntervalStats(fail_at)

SpecExport == InitExport /\ [][NextExport]_vars

----------------------------------------------------------------------------
(* Properties of the request payload and of the reading of replies *)

\* the last round met an event whose metadata cannot be parsed
BuildRaised == "metadata" \in DOMAIN lastRun

\* C18: when the request is built, an event whose metadata is missing or
\* cannot be parsed is skipped and the other events are still put in the
\* request that is sent to the peers.
C18_BadMetadataSkipped ==
    (/\ BuildRaised
     /\ \E e \in EventIds : ~json_loads_raises(lastRun.metadata[e])) =>
        lastRun.ran

\* C19: an answer of a reply that refers to an event that is not registered
\* is never recorded as a prediction for that event key, and the other
\* answers of the reply are recorded.
C19_UnknownEventDiscarded ==
    lastRun.ran =>
        \A uid \in DOMAIN lastRun.replies :
            \A e \in DOMAIN lastRun.replies[uid].events :
                (e \in RegisteredEvents) <=>
                    \E row \in predictions :
                        row_key(row) = <<e, uid, lastRun.interval_start_minutes>>

----------------------------------------------------------------------------
(* The interval clock, as the dispatcher and as the settlement hook *)
(* compute it, applied to points in time on both sides of the epoch  *)

\* whole minutes from the epoch, and points one second after and one second
\* before a whole minute, in seconds
ProbeTimes ==
    { (60 * m) + r : m \in (0 - MaxMinutes) .. MaxMinutes, r \in {0, 1, 59} }

InitClock ==
    /\ probe \in { [applied |-> FALSE, total_seconds |-> s] : s \in ProbeTimes }
    /\ predictions = {}
    /\ taskClock = 0
    /\ lastRun = NoRun
    /\ InitForwardIdle
    /\ InitHookIdle
    /\ InitExportIdle

\* the same point in time is taken as the dispatcher's now, and as the
\* hook's cutoff, now and registered_date
ApplyClock ==
    /\ ~probe.applied
    /\ LET m == epoch_minutes(probe.total_seconds)
       IN  probe' =
             [applied |-> TRUE, total_seconds |-> probe.total_seconds,
              dispatcher |-> interval_start_minutes(m),
              again |-> interval_start_minutes(interval_start_minutes(m)),
              cutoff |-> cutoff_interval_start_minutes([cutoff |-> m]),
              now |-> now_interval_start_minutes(m),
              start |-> start_interval_start_minutes([registered_date |-> m])]
    /\ UNCHANGED <<runVars, forwardVars, hookVars, exportVars>>

NextClock == ApplyClock

SpecClock == InitClock /\ [][NextClock]_vars

\* C20: for every point in time, before or after the epoch, the interval
\* start is a multiple of the interval width, is at or before the point in
\* time and less than one width before it, is its own interval start, and is
\* the same value in the dispatcher and in the three places of the hook.
C20_IntervalAlignment ==
    probe.applied =>
        /\ probe.dispatcher % CLUSTERED_SUBMISSIONS_INTERVAL_MINUTES = 0
        /\ probe.dispatcher * 60 <= probe.total_seconds
        /\ probe.total_seconds
             < (probe.dispatcher + CLUSTERED_SUBMISSIONS_INTERVAL_MINUTES) * 60
        /\ probe.again = probe.dispatcher
        /\ probe.cutoff = probe.dispatcher
        /\ probe.now = probe.dispatcher
        /\ probe.start = probe.dispatcher

\* the clock was applied to a whole minute before the epoch that is not on
\* an interval boundary
C20_Witness ==
    /\ probe.applied
    /\ probe.total_seconds < 0
    /\ probe.total_seconds % 60 = 0
    /\ probe.dispatcher * 60 < probe.total_seconds
    /\ probe.dispatcher < 0

----------------------------------------------------------------------------
(* The settlement hook on the two-interval scenario: an event registered *)
(* at minute 0 with cutoff at minute 480, peers that answered 0.9 in     *)
(* interval 0 and 0.8 in interval 240, and silent peers, all registered  *)
(* before the event                                                      *)

ScenarioAnswers == (0 :> 9) @@ (240 :> 8)

\* the hook runs at the cutoff or later
ScenarioNows == {480, 600, 720, 1000}

InitHookScenario ==
    /\ InitRunIdle
    /\ InitForwardIdle
    /\ InitExportIdle
    /\ InitClockIdle
    /\ registry = {"e1"}
    /\ events = [e \in {"e1"} |->
                   [status |-> "PENDING", answer |-> None,
                    market_type |-> "ifgames",
                    registered_date |-> 0, cutoff |-> 480]]
    /\ hookNow \in ScenarioNows
    /\ event_predictions \in [{"e1"} -> [Uids -> {ScenarioAnswers, <<>>}]]
    /\ miner_reg_time = [uid \in Uids |-> 0 - 10]
    /\ exported = {}
    /\ lastHook = NoHook

SpecHookScenario == InitHookScenario /\ [][NextHook]_vars

\* the peers of the scenario that answered, and those that did not
ScenarioA == {uid \in Uids : HookPreds[uid] = ScenarioAnswers}

ScenarioB == {uid \in Uids : HookPreds[uid] = <<>>}

\* C21: in the scenario, with ground truth 1.0, a peer that answered is
\* scored over exactly the intervals 0 and 240, with weights 1 and exp(-1)
\* (0.368) and Brier complements 0.99 and 0.96; a silent peer has raw score
\* 0; and with one answering peer the normalised scores are 1.0 for it and
\* 0.0 for the silent peers.
C21_Scenario ==
    (HookScored /\ HookTruth = 10) =>
        /\ \A uid \in ScenarioA :
              StepsOf(uid) = << [interval |-> 0, wk |-> 1000, mk |-> 1000 * 99],
                                [interval |-> 240, wk |-> 368, mk |-> 368 * 96] >>
        /\ \A uid \in ScenarioB :
              RawScore(uid) = 0 /\ lastHook.result.scores[uid] = 0
        /\ Cardinality(ScenarioA) = 1 =>
              \A uid \in ScenarioA : lastHook.result.scores[uid] = 10000

\* the scenario was scored with one answering and at least one silent peer
C21_Witness ==
    /\ HookScored
    /\ HookTruth = 10
    /\ Cardinality(ScenarioA) = 1
    /\ ScenarioB # {}
    /\ \A uid \in ScenarioA :
          Len(StepsOf(uid)) = 2 /\ lastHook.result.scores[uid] = 10000

----------------------------------------------------------------------------
(* QueryMiners.store_predictions step by step: every "await                *)
(* self.db_operations.upsert_predictions(...)" hands control to the event   *)
(* loop, where a task that reads the predictions may run                    *)

\* replies that cover both requested events
StoreReplies == {reply_answers, reply_partial, reply_timeout}

\* what a reader of the predictions table sees:
\* event -> uid -> interval_start_minutes -> answer
get_event_predictions(table) ==
    [e \in EventIds |->
       [uid \in Uids |->
          LET rows == {row \in table : row.unique_event_id = e /\ row.minerUid = uid}
          IN  [i \in {row.interval_start_minutes : row \in rows} |->
                 (CHOOSE row \in rows : row.interval_start_minutes = i).answer]]]

InitStore == InitRound

\* the round is in store_predictions, with peers left to store
Storing == "pending" \in DOMAIN lastRun

\* QueryMiners.run up to the call of store_predictions: the replies are in,
\* block and interval_start_minutes are computed
BeginStore(serving, replies, duration) ==
    /\ lastRun.round = 0
    /\ serving # {}
    /\ lastRun' = [ran |-> TRUE, round |-> lastRun.round + 1,
                   replies |-> replies, block |-> taskClock,
                   interval_start_minutes |->
                       interval_start_minutes(taskClock + duration),
                   raised |-> FALSE, stored |-> {}, conflicts |-> {},
                   pending |-> uid_order(serving)]
    /\ taskClock' = taskClock + duration
    /\ UNCHANGED predictions
    /\ UNCHANGED <<forwardVars, hookVars, exportVars, clockVars>>

\* one turn of the loop of store_predictions: parse the reply of the next
\* uid and await its upsert
StoreNext ==
    /\ Storing
    /\ lastRun.pending # <<>>
    /\ LET uid == Head(lastRun.pending)
           parsed == parse_neuron_predictions(lastRun.block,
                         lastRun.interval_start_minutes, uid, lastRun.replies[uid])
       IN  IF parsed.raised
           THEN /\ lastRun' = [lastRun EXCEPT !.raised = TRUE, !.pending = <<>>]
                /\ UNCHANGED predictions
           ELSE /\ predictions' = upsert_predictions(predictions, parsed.rows)
                /\ lastRun' = [lastRun EXCEPT
                                 !.stored = @ \cup {uid},
                                 !.conflicts = @ \cup conflicts(predictions, parsed.rows),
                                 !.pending = Tail(@)]
    /\ UNCHANGED taskClock
    /\ UNCHANGED <<forwardVars, hookVars, exportVars, clockVars>>

\* another task of the event loop reads the predictions, once
ReadPredictions ==
    /\ event_predictions = <<>>
    /\ event_predictions' = get_event_predictions(predictions)
    /\ UNCHANGED <<registry, events, miner_reg_time, hookNow, exported, lastHook>>
    /\ UNCHANGED <<runVars, forwardVars, exportVars, clockVars>>

NextStore ==
    \/ \E serving \in SUBSET Uids :
         \E replies \in [serving -> StoreReplies] :
           \E duration \in {0, query_timeout_minutes} :
              BeginStore(serving, replies, duration)
    \/ StoreNext
    \/ ReadPredictions

SpecStore == InitStore /\ [][NextStore]_vars

\* the uids of which a reader has seen a prediction for the event
SeenUids(e) == {uid \in Uids : DOMAIN event_predictions[e][uid] # {}}

\* C22: a reader of the predictions never sees a round half applied: it sees
\* the submissions of all the peers of the round, or of none.
C22_RoundAtomic ==
    (event_predictions # <<>> /\ Storing) =>
        \A e \in EventIds :
            SeenUids(e) = {} \/ SeenUids(e) = DOMAIN lastRun.replies

----------------------------------------------------------------------------
(* Properties of the scoring window and of the recency weights *)

\* the interval of the earlier of the cutoff and the time of the hook
EndInterval ==
    interval_start_minutes(Min(lastHook.pe.cutoff, hookNow))

\* the number of intervals between the registration interval and EndInterval
TotalIntervals ==
    (EndInterval - interval_start_minutes(lastHook.pe.registered_date))
        \div CLUSTERED_SUBMISSIONS_INTERVAL_MINUTES

\* C23: the interval loop of the general branch iterates exactly the
\* TotalIntervals intervals from the interval of the registration time up to,
\* and not including, the interval of the earlier of cutoff and current time.
C23_ScoringWindow ==
    HookScored =>
        \A uid \in GeneralMiners :
            /\ TotalIntervals >= 0
            /\ Len(StepsOf(uid)) = TotalIntervals
            /\ \A k \in StepIndexes(uid) :
                  /\ StepsOf(uid)[k].interval =
                        interval_start_minutes(lastHook.pe.registered_date)
                          + (k - 1) * CLUSTERED_SUBMISSIONS_INTERVAL_MINUTES
                  /\ StepsOf(uid)[k].interval < EndInterval

\* an event was scored before its cutoff: the window ends at the interval of
\* the current time, and the recorded answer of a later interval is left out
C23_Witness ==
    /\ HookScored
    /\ hookNow < lastHook.pe.cutoff
    /\ \E uid \in GeneralMiners :
          /\ Len(StepsOf(uid)) = 2
          /\ \E i \in DOMAIN HookPreds[uid] : i >= EndInterval

\* the sums of the weights and of the weighted Brier complements of the
\* steps of a peer
StepWeights(uid) == SeqSum([k \in StepIndexes(uid) |-> StepsOf(uid)[k].wk])

StepScores(uid) == SeqSum([k \in StepIndexes(uid) |-> StepsOf(uid)[k].mk])

\* C24: in the general branch the raw score of a peer is the weighted
\* average sum(w_i * brier_i) / sum(w_i) over the window; when the weight sum
\* is zero the raw score is 0 and the hook still completes: it updates and
\* exports the scores and returns true.
C24_WeightedAverage ==
    HookScored =>
        /\ lastHook.result.ret
        /\ lastHook.result.export_scores
        /\ \A uid \in GeneralMiners :
              /\ lastHook.result.miners[uid].weights_sum = StepWeights(uid)
              /\ StepWeights(uid) > 0 =>
                    RawScore(uid) = (StepScores(uid) * 1000) \div StepWeights(uid)
              /\ StepWeights(uid) = 0 => RawScore(uid) = 0

\* an event whose window holds no interval was scored: a peer with recorded
\* answers went through the interval loop with weight sum 0
C24_Witness ==
    /\ HookScored
    /\ lastHook.result.ret
    /\ \E uid \in GeneralMiners :
          /\ DOMAIN HookPreds[uid] # {}
          /\ StepsOf(uid) = <<>>
          /\ lastHook.result.miners[uid].weights_sum = 0
          /\ RawScore(uid) = 0

\* C25: every interval index i of the interval loop satisfies
\* 0 <= i < TotalIntervals, so the divisor TotalIntervals - i is at least 1;
\* the weight is 1 for i = 0 and strictly smaller from one interval to the
\* next; and the weight sum of a window is 0 or at least 1.
C25_WeightsWellDefined ==
    HookScored =>
        \A uid \in GeneralMiners :
            /\ \A k \in StepIndexes(uid) :
                  /\ 0 <= k - 1
                  /\ k - 1 < TotalIntervals
                  /\ TotalIntervals - (k - 1) >= 1
                  /\ StepsOf(uid)[k].wk > 0
                  /\ k = 1 => StepsOf(uid)[k].wk = 1000
                  /\ k > 1 => StepsOf(uid)[k].wk < StepsOf(uid)[k - 1].wk
            /\ StepWeights(uid) = 0 \/ StepWeights(uid) >= 1000
            /\ StepsOf(uid) # <<>> => StepWeights(uid) >= 1000

\* a window of three intervals was scored with three decreasing weights
C25_Witness ==
    /\ HookScored
    /\ \E uid \in GeneralMiners :
          /\ Len(StepsOf(uid)) = 3
          /\ StepsOf(uid)[1].wk = 1000
          /\ StepsOf(uid)[2].wk < 1000
          /\ StepsOf(uid)[3].wk < StepsOf(uid)[2].wk
          /\ StepsOf(uid)[3].wk > 0

\* the branches of the miner loop, each of which appends one score
ScoreBranches == {"azuro", "azuro-silent", "general", "general-silent"}

\* C26: for a settled event with ground truth in [0, 1] every peer's raw
\* score is in [0, 1], whatever answers were recorded for the peer and
\* whatever its registration time, and the score vector has exactly one entry
\* per peer slot 0..n-1 on every branch.
C26_ScoresBounded ==
    HookScored =>
        /\ DOMAIN lastHook.result.miners = Uids
        /\ DOMAIN lastHook.result.scores = Uids
        /\ \A uid \in Uids :
              /\ lastHook.result.miners[uid].branch \in ScoreBranches
              /\ RawScore(uid) >= 0
              /\ RawScore(uid) <= 100000
              /\ lastHook.result.scores[uid] >= 0

\* one hook scored a peer with recorded answers above 1 and below 0 and a
\* peer that took a branch scoring without the interval loop
C26_Witness ==
    /\ HookScored
    /\ \E uid, other \in Uids :
          /\ uid # other
          /\ \E i, j \in DOMAIN HookPreds[uid] :
                HookPreds[uid][i] > 10 /\ HookPreds[uid][j] < 0
          /\ lastHook.result.miners[uid].branch = "general"
          /\ Len(StepsOf(uid)) = 3
          /\ lastHook.result.miners[other].branch # "general"

----------------------------------------------------------------------------
(* The four parallel lists of Validator.forward *)

\* an entry whose "probability" is text: "score > 0" raises on it
text_entry == [is_mapping |-> TRUE, probability |-> Some(7), numeric |-> FALSE]

is_number(event_data) ==
    IF "numeric" \in DOMAIN event_data THEN event_data.numeric ELSE TRUE

reply_text == [events_ok |-> TRUE,
               events |-> ("e1" :> text_entry) @@ ("e2" :> entry(Some(3)))]

ListReplies == {reply_answers, reply_bad_entry, reply_text}

\* the lists and counters forward initialises before its loop
empty_lists ==
    [provider_events |-> <<>>, minerUids |-> <<>>, answers |-> <<>>,
     details |-> <<>>, err_count |-> 0, resp_logs |-> 0, current_uid |-> 0 - 1]

\* the body of the try block for one entry.  event_data.get raises on an
\* entry that is no mapping, before anything is appended; the condition of
\* the sample log is evaluated left to right after the three appends, and
\* its last operand "score > 0" raises on a score that is no number; the
\* except clause counts the error and the loop goes on
try_entry(l, uid, unique_event_id, event_data) ==
    IF ~event_data.is_mapping
    THEN [l EXCEPT !.err_count = @ + 1]
    ELSE LET score == event_data.probability
             provider_event == get_registered_event(unique_event_id)
             appended == [l EXCEPT !.answers = Append(@, score),
                                   !.minerUids = Append(@, uid),
                                   !.provider_events = Append(@, provider_event)]
             compared == /\ l.resp_logs <= 5
                         /\ uid # l.current_uid
                         /\ score # None
         IN  IF compared /\ ~is_number(event_data)
             THEN [appended EXCEPT !.err_count = @ + 1]
             ELSE LET logged == compared /\ TheValue(score) > 0
                  IN  [appended EXCEPT
                         !.resp_logs = IF logged THEN @ + 1 ELSE @,
                         !.current_uid = IF logged THEN uid ELSE @,
                         !.details = Append(@, details_of(provider_event, score))]

\* "for unique_event_id, event_data in resp.events.items()"
RECURSIVE entries_loop(_, _, _, _)
entries_loop(l, uid, resp, ids) ==
    IF ids = <<>> THEN l
    ELSE entries_loop(
            IF Head(ids) \in DOMAIN resp.events
            THEN try_entry(l, uid, Head(ids), resp.events[Head(ids)])
            ELSE l,
            uid, resp, Tail(ids))

\* "for uid, resp in zip(miner_uids, responses)"
RECURSIVE lists_loop(_, _, _)
lists_loop(l, responses, uids) ==
    IF uids = <<>> THEN l
    ELSE lists_loop(entries_loop(l, Head(uids), responses[Head(uids)], EventOrder),
                    responses, Tail(uids))

\* the DataFrame built from the lists: assigning a column whose length is
\* not the length of the first column raises
payload_raises(l) ==
    \/ Len(l.minerUids) # Len(l.provider_events)
    \/ Len(l.answers) # Len(l.provider_events)
    \/ Len(l.details) # Len(l.provider_events)

payload_rows(l) ==
    [k \in 1 .. Len(l.provider_events) |->
        [provider_event |-> l.provider_events[k],
         unique_event_id |-> IF l.provider_events[k] = None THEN ""
                             ELSE TheValue(l.provider_events[k]),
         minerUid |-> l.minerUids[k],
         answer |-> l.answers[k],
         details |-> l.details[k]]]

\* the lists as they are when the loop of forward ends
forward_lists(responses) ==
    lists_loop(empty_lists, responses, uid_order(DOMAIN responses))

InitLists == InitForward

\* one call of Validator.forward, list by list
ForwardLists(responses, dur) ==
    /\ lastForward.round < MaxRounds
    /\ lastForward' =
          [ran |-> TRUE, round |-> lastForward.round + 1,
           responses |-> responses,
           interval_start_minutes |-> interval_start_minutes((now + dur) \div 60),
           lists |-> forward_lists(responses),
           payload_raised |-> /\ Len(forward_lists(responses).minerUids) > 0
                              /\ payload_raises(forward_lists(responses)),
           queries |-> <<>>]
    /\ IF lastForward'.payload_raised
       THEN \* "raise e": forward ends before the write and the rate-limit gate
            /\ now' = now + dur
            /\ UNCHANGED <<db, blocktime, last_query_time>>
       ELSE /\ db' = IF Len(lastForward'.lists.minerUids) > 0
                     THEN miner_batch_update_predictions(
                              db, payload_rows(lastForward'.lists), now,
                              lastForward'.interval_start_minutes)
                     ELSE db
            /\ blocktime' = blocktime + 1
            /\ now' = after_wait(now + dur, last_query_time)
            /\ last_query_time' = now'
    /\ UNCHANGED <<runVars, hookVars, exportVars, clockVars>>

NextLists ==
    \E responses \in [Uids -> ListReplies] :
      \E dur \in ProcessingDelays :
         ForwardLists(responses, dur)

SpecLists == InitLists /\ [][NextLists]_vars

ListsOf == lastForward.lists

\* C27 as stated: after the loop of forward the lists provider_events,
\* minerUids, answers and details have equal length whatever the replies
\* were, so the batch payload is built and written whenever at least one
\* entry was collected.
C27_ListsAligned ==
    lastForward.ran =>
        /\ Len(ListsOf.minerUids) = Len(ListsOf.provider_events)
        /\ Len(ListsOf.answers) = Len(ListsOf.provider_events)
        /\ Len(ListsOf.details) = Len(ListsOf.provider_events)
        /\ Len(ListsOf.minerUids) > 0 => ~lastForward.payload_raised

----------------------------------------------------------------------------
(* The interval label of a dispatch round *)

\* the keys of the rows of a table
row_keys(table) == {row_key(row) : row \in table}

\* the rows of the last round carry its block and the start of the interval
\* that contains the time at which its peer query returned
RoundLabel ==
    lastRun.ran =>
        /\ lastRun.interval_start_minutes = interval_start_minutes(lastRun.collected)
        /\ lastRun.interval_start_minutes >= interval_start_minutes(lastRun.block)
        /\ \A row \in predictions :
              row.block = lastRun.block =>
                 row.interval_start_minutes = lastRun.interval_start_minutes
        /\ \A uid \in lastRun.stored :
              \A e \in DOMAIN lastRun.replies[uid].events :
                  \E row \in predictions :
                     /\ row_key(row) = <<e, uid, lastRun.interval_start_minutes>>
                     /\ row.block = lastRun.block

\* every (event, peer, interval) key of the store stays in the store
KeysKept == row_keys(predictions) \subseteq row_keys(predictions')

\* C28: the rows a dispatch round records carry one block and one interval
\* start, the start of the interval that contains the time at which the peer
\* query returned, which may be the interval after the one in which the
\* round was triggered; and a later round never changes the interval
\* assignment of a committed submission.
C28_OneLabelPerRound == []RoundLabel /\ [][KeysKept]_vars

\* a round triggered in one interval returned from its query in the next,
\* and the store still holds rows an earlier round labelled with the first
C28_Witness ==
    /\ lastRun.ran
    /\ lastRun.stored # {}
    /\ lastRun.interval_start_minutes > interval_start_minutes(lastRun.block)
    /\ \E row \in predictions :
          /\ row.block < lastRun.block
          /\ row.minerUid \in lastRun.stored
          /\ row.interval_start_minutes = interval_start_minutes(lastRun.block)

----------------------------------------------------------------------------
(* Dispatch rounds interleaved with the interval export pass.  The pass is
   split at its awaits: the read, the chunks of the "async for", the sleep
   before the mark.  Validator.forward has no await between reading the
   clock for its interval label and writing its payload, and is one step;
   QueryMiners.run awaits store_predictions after it computed its label. *)

\* mutant of interval_minutes_end: the range runs up to the next interval
interval_minutes_end_open(minutes_since_epoch) ==
    minutes_since_epoch
    - (minutes_since_epoch % CLUSTERED_SUBMISSIONS_INTERVAL_MINUTES)
    + CLUSTERED_SUBMISSIONS_INTERVAL_MINUTES

\* previous_interval_start_minutes, the end of the exported range
interval_minutes_end(minutes_since_epoch) ==
    minutes_since_epoch
    - (minutes_since_epoch % CLUSTERED_SUBMISSIONS_INTERVAL_MINUTES)
    - CLUSTERED_SUBMISSIONS_INTERVAL_MINUTES

\* previous_m20_interval_start_minutes, the begin of the exported range
interval_minutes_begin(minutes_since_epoch) ==
    minutes_since_epoch
    - (minutes_since_epoch % CLUSTERED_SUBMISSIONS_INTERVAL_MINUTES)
    - (CLUSTERED_SUBMISSIONS_INTERVAL_MINUTES * 20)

\* the replies of a round: every peer answers, or every peer answers in part
DispatchResponses == {[uid \in Uids |-> reply_answers],
                      [uid \in Uids |-> reply_partial]}

\* the dispatch rounds started so far, of both dispatchers
Rounds == lastForward.round + lastRun.round

\* the task is about to run
PassWaiting(wake, round) ==
    [phase |-> "waiting", round |-> round, wake |-> wake, marked |-> {},
     read |-> {}, sent |-> {}, failed |-> FALSE, begin |-> 0, end |-> 0,
     dispatched |-> 0, dispatched_at_read |-> 0]

\* the number of dispatch rounds that have written so far
Dispatched == blocktime + (IF lastRun.ran THEN lastRun.round ELSE 0)

TaskPending == "pending" \in DOMAIN lastRun

\* the validator starts 200 seconds before the end of the third interval,
\* with submissions of the first two intervals in its store
InitInterleave ==
    /\ now = (3 * CLUSTERED_SUBMISSIONS_INTERVAL_MINUTES * 60) - 200
    /\ last_query_time = now
    /\ blocktime = 0
    /\ db = ExportRows
    /\ lastForward = NoForward
    /\ exported_rows = {}
    /\ lastPass = PassWaiting(0, 0)
    /\ predictions = {}
    /\ taskClock = 0
    /\ lastRun = NoRun
    /\ InitHookIdle
    /\ InitClockIdle

\* QueryMiners.run up to the call of store_predictions: the label is read
\* from the clock when the query has returned
TaskLabel(replies, duration) ==
    /\ Rounds < MaxRounds
    /\ ~TaskPending
    /\ now' = now + (duration * 60)
    /\ lastRun' = [ran |-> FALSE, round |-> lastRun.round + 1, pending |-> TRUE,
                   replies |-> replies, block |-> Rounds + 1,
                   interval_start_minutes |->
                       interval_start_minutes(
                           collection_time(now \div 60, duration))]
    /\ UNCHANGED <<predictions, taskClock, forwardVars, hookVars, exportVars,
                   clockVars>>

\* the awaited store_predictions of the round
TaskStore ==
    /\ TaskPending
    /\ db' = store_predictions(db, lastRun.block, lastRun.interval_start_minutes,
                               lastRun.replies).table
    /\ lastRun' = [ran |-> TRUE, round |-> lastRun.round,
                   block |-> lastRun.block,
                   interval_start_minutes |-> lastRun.interval_start_minutes]
    /\ UNCHANGED <<predictions, taskClock, now, last_query_time, blocktime,
                   lastForward, hookVars, exportVars, clockVars>>

\* send_interval_stats up to the read of the unexported rows, at the end of
\* the sleep of track_interval_stats.  A store of the task that is in flight
\* ends before that sleep of SEND_MINER_LOGS_INTERVAL does.
PassRead ==
    /\ lastPass.round < MaxRounds
    /\ lastPass.phase = "waiting"
    /\ lastPass.wake > now => ~TaskPending
    /\ now' = Max(now, lastPass.wake)
    /\ LET begin == interval_minutes_begin(now' \div 60)
           end == interval_minutes_end(now' \div 60)
           predictions_data ==
               get_all_non_exported_event_predictions(db, exported_rows, begin, end)
       IN  lastPass' =
              IF predictions_data = {}
              THEN PassWaiting(now' + SEND_MINER_LOGS_INTERVAL, lastPass.round + 1)
              ELSE [phase |-> "sending", round |-> lastPass.round + 1,
                    wake |-> 0, marked |-> {}, read |-> predictions_data,
                    sent |-> {}, failed |-> FALSE, begin |-> begin, end |-> end,
                    dispatched |-> Dispatched, dispatched_at_read |-> Dispatched]
    /\ UNCHANGED <<exported_rows, last_query_time, blocktime, db, lastForward,
                   runVars, hookVars, clockVars>>

\* the chunk of the rows read that the "async for" sends next
next_chunk ==
    LET chunk_metrics == split_chunks(row_order(lastPass.read \ lastPass.sent),
                                      ChunkRows)
    IN  {chunk_metrics[1][k] : k \in 1 .. Len(chunk_metrics[1])}

\* one turn of the "async for": send_interval_data of one chunk, which may
\* raise; after the last chunk the pass sleeps
PassSend(ok) ==
    /\ lastPass.phase = "sending"
    /\ lastPass' =
          IF ok
          THEN LET sent == lastPass.sent \cup next_chunk
               IN  [lastPass EXCEPT
                      !.sent = sent,
                      !.phase = IF sent = lastPass.read
                                THEN "sleeping" ELSE "sending"]
          ELSE [lastPass EXCEPT !.phase = "waiting", !.failed = TRUE,
                                !.wake = now + SEND_MINER_LOGS_INTERVAL,
                                !.dispatched = Dispatched]
    /\ UNCHANGED <<exported_rows, forwardVars, runVars, hookVars, clockVars>>

\* the end of "await asyncio.sleep(4)" and mark_submissions_as_exported
PassMark ==
    /\ lastPass.phase = "sleeping"
    /\ now' = now + 4
    /\ exported_rows' = mark_submissions_as_exported(db, exported_rows,
                                                     lastPass.begin, lastPass.end)
    /\ lastPass' = [lastPass EXCEPT
                      !.phase = "waiting",
                      !.wake = now' + SEND_MINER_LOGS_INTERVAL,
                      !.marked = exported_rows' \ exported_rows,
                      !.dispatched = Dispatched]
    /\ UNCHANGED <<last_query_time, blocktime, db, lastForward, runVars,
                   hookVars, clockVars>>

NextInterleave ==
    \/ \E responses \in DispatchResponses :
         \E dur \in ProcessingDelays :
            Rounds < MaxRounds /\ Forward(responses, 0, dur)
    \/ \E responses \in DispatchResponses :
         \E duration \in {0, query_timeout_minutes} :
            TaskLabel(responses, duration)
    \/ TaskStore
    \/ PassRead
    \/ \E ok \in BOOLEAN : PassSend(ok)
    \/ PassMark

SpecInterleave == InitInterleave /\ [][NextInterleave]_vars

PassInFlight == lastPass.phase \in {"sending", "sleeping"}

\* the unexported rows the store holds in the range of the pass
RangeRows ==
    get_all_non_exported_event_predictions(db, exported_rows,
                                           lastPass.begin, lastPass.end)

====
